---- MODULE Spec2Model ----
(***************************************************************************)
(* Model of the MCP Google-Sheets server: the startup sequence             *)
(* (startServer / initContext), the thirteen registered tool handlers and  *)
(* the operations of sheets.ts they call, running against the Google       *)
(* Sheets / Drive collaborator.                                            *)
(*                                                                         *)
(* JavaScript runs a function without interruption up to its next await;   *)
(* every action below is one such run: from one suspension point to the    *)
(* next.  A collaborator call takes effect at the moment its reply is      *)
(* delivered, so concurrent calls are served one at a time in any order.   *)
(***************************************************************************)
EXTENDS Integers, Sequences, FiniteSets, TLC

\* ------------------------------------------------------------------ bounds
MaxRequests == 2      \* tool requests the client sends in one run
MaxStartupRequests == 1  \* the same, in the runs that study the startup
MaxRecipients == 2    \* longest recipient list given to shareSpreadsheet
MaxSheets == 3        \* most sheet tabs the spreadsheet grows to

VARIABLES
  CREDENTIALS_CONFIG,  \* process.env.CREDENTIALS_CONFIG: "", "malformed" or "key"
  credentialsFile,     \* credentials.json: "absent", "invalid", "ok"
  tokenFile,           \* token.json: "absent", "corrupt", "saved", "new"
  DRIVE_FOLDER_ID,     \* process.env.DRIVE_FOLDER_ID || ""
  pc,                  \* where startServer / initContext is suspended
  context,             \* the module-level `let context`
  log,                 \* what initContext has done so far, in order
  toSend,              \* how many requests the client has yet to send
  requests,            \* the tool requests received so far, each with its handler
  spreadsheet          \* the collaborator's spreadsheet

vars == <<CREDENTIALS_CONFIG, credentialsFile, tokenFile, DRIVE_FOLDER_ID,
          pc, context, log, toSend, requests, spreadsheet>>

env == <<CREDENTIALS_CONFIG, credentialsFile, DRIVE_FOLDER_ID>>

\* ------------------------------------------------------- Session Context
\* `let context: SpreadsheetContext;` holds undefined until initContext assigns it.
Undefined == [auth |-> "undefined", folderId |-> ""]

\* {sheets, drive, folderId}: both clients are built over the same auth client,
\* which is what tells one context from another; folderId is
\* DRIVE_FOLDER_ID || undefined, "" standing for undefined.
SpreadsheetContext(auth) == [auth |-> auth, folderId |-> DRIVE_FOLDER_ID]

\* The state initContext leaves behind at a suspension point or at its end.
Boot(p, c, l, t) == [pc |-> p, context |-> c, log |-> l, tokenFile |-> t]

\* throw ... -> catch (error) { process.exit(1) } of initContext
Fatal(c, l, t) == Boot("exited", c, Append(l, "exit"), t)

\* --------------------------------------------------------- initContext
\* Lines 244-260: generateAuthUrl, then block on rl.question for the code.
Prompt(c, l, t) == Boot("prompt", c, Append(l, "prompt"), t)

\* Lines 199-260, from `if (fs.existsSync(CREDENTIALS_PATH))` to the first await
\* of the OAuth path.  A missing descriptor reaches the throw of line 284; a
\* descriptor that does not parse or has neither `installed` nor `web`, or a
\* token file JSON.parse rejects, throws inside the try of line 202; each ends in
\* the outer catch and process.exit(1).
EnterOAuth(c, l, t) ==
  IF credentialsFile = "absent" THEN Fatal(c, Append(l, "noMethod"), t)
  ELSE LET l1 == Append(l, "oauth") IN
    IF credentialsFile # "ok" THEN Fatal(c, Append(l1, "oauthError"), t)
    ELSE IF t # "absent"
      THEN IF t = "corrupt" THEN Fatal(c, Append(l1, "oauthError"), t)
           ELSE Boot("probe", c, Append(Append(l1, "tokenLoaded"), "probe"), t)
      ELSE Prompt(c, l1, t)

\* As AfterServiceFailure, had the service path's catch rethrown.
ServiceFailureThrows(l) == Fatal(Undefined, Append(l, "serviceFailed"), tokenFile)

\* Lines 190-193: the service path's catch logs and falls through.
AfterServiceFailure(l) ==
  EnterOAuth(Undefined, Append(l, "serviceFailed"), tokenFile)

\* As InitContextEntry, with the two priorities exchanged: credentials.json
\* is looked for before CREDENTIALS_CONFIG.
OAuthFirst ==
  IF credentialsFile # "absent" THEN EnterOAuth(Undefined, <<>>, tokenFile)
  ELSE IF CREDENTIALS_CONFIG = "key"
    THEN Boot("authorize", Undefined, <<"service">>, tokenFile)
  ELSE Fatal(Undefined,
             IF CREDENTIALS_CONFIG = "" THEN <<"noMethod">>
             ELSE <<"service", "serviceFailed", "noMethod">>, tokenFile)

\* Lines 168-182, up to `await authClient.authorize()`.
InitContextEntry ==
  IF CREDENTIALS_CONFIG # ""
    THEN IF CREDENTIALS_CONFIG = "malformed"
           THEN AfterServiceFailure(<<"service">>)
           ELSE Boot("authorize", Undefined, <<"service">>, tokenFile)
    ELSE EnterOAuth(Undefined, <<>>, tokenFile)

\* As AfterAuthorize, without the `return` of line 189.
AuthorizeNoReturn(ok) ==
  IF ok THEN EnterOAuth(SpreadsheetContext("service"), Append(log, "serviceOk"), tokenFile)
        ELSE AfterServiceFailure(log)

\* Lines 182-192: the handshake's reply; on success assign context and return.
AfterAuthorize(ok) ==
  IF ok THEN Boot("ready", SpreadsheetContext("service"), Append(log, "serviceOk"), tokenFile)
        ELSE AfterServiceFailure(log)

\* As AfterProbe, with the context built whatever the probe answered.
ProbeTrusted(ok) ==
  Boot("ready", SpreadsheetContext("savedToken"),
       Append(log, IF ok THEN "probeOk" ELSE "probeFailed"), tokenFile)

\* Lines 226-241: the reply to drive.files.list({pageSize: 1}).
AfterProbe(ok) ==
  IF ok THEN Boot("ready", SpreadsheetContext("savedToken"), Append(log, "probeOk"), tokenFile)
        ELSE Prompt(context, Append(log, "probeFailed"), tokenFile)

\* Lines 262-277: the reply to oAuth2Client.getToken(code).
AfterGetToken(outcome) ==
  CASE outcome = "tokens" ->
         Boot("ready", SpreadsheetContext("newToken"),
              Append(Append(log, "exchangeOk"), "write"), "new")
    [] outcome = "writeFailed" ->
         Fatal(context, Append(Append(log, "exchangeOk"), "oauthError"), tokenFile)
    [] OTHER ->
         Fatal(context, Append(Append(log, "exchangeFailed"), "oauthError"), tokenFile)

\* ------------------------------------------------------ the collaborator
\* One spreadsheet: its sheet tabs in order, each with a numeric id, a title
\* and the content of its cell A1 ("" when empty).
Sheet(id, title, a1) == [sheetId |-> id, title |-> title, A1 |-> a1]

InitialSpreadsheet == <<Sheet(0, "Sheet1", ""), Sheet(1, "Data", "")>>

RequestTitles == {"Sheet1", "sheet1"}
CellData == {"x"}
Ranges == {"", "A1"}

TitlesOf(ss) == {ss[i].title : i \in 1..Len(ss)}

\* Array.prototype.find: the first element the predicate accepts, 0 for undefined.
RECURSIVE FindFrom(_, _, _)
FindFrom(ss, title, i) ==
  IF i > Len(ss) THEN 0
  ELSE IF ss[i].title = title THEN i
  ELSE FindFrom(ss, title, i + 1)

\* A lookup that takes the titles of the requests for one another: it does
\* not tell the capital letter from the small one.
FindIgnoringCase(ss, title) ==
  IF title \in RequestTitles /\ \E i \in 1..Len(ss) : ss[i].title \in RequestTitles
    THEN CHOOSE i \in 1..Len(ss) :
           /\ ss[i].title \in RequestTitles
           /\ \A j \in 1..(i - 1) : ss[j].title \notin RequestTitles
    ELSE FindFrom(ss, title, 1)

Find(ss, title) == FindFrom(ss, title, 1)

IndexOfId(ss, id) ==
  IF \E i \in 1..Len(ss) : ss[i].sheetId = id
    THEN CHOOSE i \in 1..Len(ss) : ss[i].sheetId = id
    ELSE 0

\* ------------------------------------------------------------- promises
NoValue == [kind |-> "none", value |-> ""]
Value(k, v) == [kind |-> k, value |-> v]

\* The state of one call of a sheets.ts function: the collaborator call it is
\* suspended on, how its promise stands, what it settled with, its locals,
\* and the collaborator calls it has issued.
Op(p, st, res, acc, calls) ==
  [pc |-> p, status |-> st, result |-> res, acc |-> acc, calls |-> calls]

Await(call, acc, calls) == Op(call, "pending", NoValue, acc, Append(calls, call))
Fulfilled(v, acc, calls) == Op("done", "fulfilled", v, acc, calls)
Rejected(e, acc, calls) == Op("done", "rejected", Value("error", e), acc, calls)

\* Reading a property of the undefined context throws a TypeError.
NoContext == Rejected("TypeError", <<>>, <<>>)

NoArgs ==
  [sheet |-> "", range |-> "", newName |-> "", data |-> "", count |-> 0,
   start |-> 0, recipients |-> <<>>, dst |-> ""]

\* What a function of sheets.ts and the collaborator look like after a step.
After(op, ss) == [op |-> op, spreadsheet |-> ss]

\* ------------------------------------------------------------ sheets.ts
\* Each function is given its arguments, the context the handler passed, its
\* own state (pc = "enter" on the call, otherwise the call it awaits), the
\* collaborator's reply to the awaited call and the collaborator's state; it
\* runs to its next await or to its end.

ObjectResult == Value("object", "")

\* createSpreadSheet without the try around the grant: a failed grant reaches
\* the outer catch, which rethrows.
CreateWithoutGrantCatch(a, ctx, op, reply, ss) ==
  After(
    CASE op.pc = "enter" ->
           IF ctx = Undefined THEN NoContext
           ELSE Await("spreadsheets.create", <<>>, <<>>)
      [] op.pc = "spreadsheets.create" ->
           IF reply = "ok" THEN Await("permissions.create", op.acc, op.calls)
           ELSE Rejected(IF reply = "noId" THEN "Error" ELSE "ApiError", op.acc, op.calls)
      [] op.pc = "permissions.create" ->
           IF reply # "ok" THEN Rejected("ApiError", Append(op.acc, reply), op.calls)
           ELSE IF ctx.folderId # ""
             THEN Await("files.get", Append(op.acc, reply), op.calls)
             ELSE Fulfilled(Value("created", "id"), Append(op.acc, reply), op.calls)
      [] op.pc = "files.get" ->
           IF reply = "ok" THEN Await("files.update", Append(op.acc, reply), op.calls)
           ELSE Fulfilled(Value("created", "id"), Append(op.acc, reply), op.calls)
      [] OTHER ->
           Fulfilled(Value("created", "id"), Append(op.acc, reply), op.calls),
    ss)

createSpreadSheet(a, ctx, op, reply, ss) ==
  After(
    CASE op.pc = "enter" ->
           IF ctx = Undefined THEN NoContext
           ELSE Await("spreadsheets.create", <<>>, <<>>)
      [] op.pc = "spreadsheets.create" ->
           IF reply = "ok" THEN Await("permissions.create", op.acc, op.calls)
           ELSE Rejected(IF reply = "noId" THEN "Error" ELSE "ApiError", op.acc, op.calls)
      [] op.pc = "permissions.create" ->
           IF ctx.folderId # ""
             THEN Await("files.get", Append(op.acc, reply), op.calls)
             ELSE Fulfilled(Value("created", "id"), Append(op.acc, reply), op.calls)
      [] op.pc = "files.get" ->
           IF reply = "ok" THEN Await("files.update", Append(op.acc, reply), op.calls)
           ELSE Fulfilled(Value("created", "id"), Append(op.acc, reply), op.calls)
      [] OTHER ->
           Fulfilled(Value("created", "id"), Append(op.acc, reply), op.calls),
    ss)

listSheets(a, ctx, op, reply, ss) ==
  After(
    IF op.pc = "enter"
      THEN IF ctx = Undefined THEN NoContext ELSE Await("spreadsheets.get", <<>>, <<>>)
    ELSE IF reply = "ok"
      THEN Fulfilled(Value("strings", [i \in 1..Len(ss) |-> ss[i].title]), op.acc, op.calls)
      ELSE Rejected("ApiError", op.acc, op.calls),
    ss)

\* The collaborator renames the sheet with this id unless the id is unknown or
\* another sheet already has the title.
CanRename(ss, id, title) ==
  /\ IndexOfId(ss, id) # 0
  /\ \A i \in 1..Len(ss) : ss[i].title = title => ss[i].sheetId = id

Renamed(ss, id, title) ==
  [i \in 1..Len(ss) |-> IF ss[i].sheetId = id
                          THEN Sheet(id, title, ss[i].A1) ELSE ss[i]]

renameSheet(a, ctx, op, reply, ss) ==
  CASE op.pc = "enter" ->
         After(IF ctx = Undefined THEN NoContext
               ELSE Await("spreadsheets.get", <<>>, <<>>), ss)
    [] op.pc = "spreadsheets.get" ->
         After(IF reply # "ok" THEN Rejected("ApiError", op.acc, op.calls)
               ELSE IF Find(ss, a.sheet) = 0
                 THEN Fulfilled(Value("string", "Cannot find the sheet with the specified name"),
                                op.acc, op.calls)
                 ELSE Await("spreadsheets.batchUpdate",
                            <<ss[Find(ss, a.sheet)].sheetId>>, op.calls), ss)
    [] OTHER ->
         IF reply = "ok" /\ CanRename(ss, op.acc[1], a.newName)
           THEN After(Fulfilled(ObjectResult, op.acc, op.calls),
                      Renamed(ss, op.acc[1], a.newName))
           ELSE After(Rejected("ApiError", op.acc, op.calls), ss)

createSheet(a, ctx, op, reply, ss) ==
  IF op.pc = "enter"
    THEN After(IF ctx = Undefined THEN NoContext
               ELSE Await("spreadsheets.batchUpdate", <<>>, <<>>), ss)
  ELSE IF reply = "ok" /\ a.sheet \notin TitlesOf(ss) /\ Len(ss) < MaxSheets
    THEN After(Fulfilled(ObjectResult, op.acc, op.calls),
               Append(ss, Sheet(Len(ss), a.sheet, "")))
    ELSE After(Rejected("ApiError", op.acc, op.calls), ss)

spreadsheetInfo(a, ctx, op, reply, ss) ==
  After(
    IF op.pc = "enter"
      THEN IF ctx = Undefined THEN NoContext ELSE Await("spreadsheets.get", <<>>, <<>>)
    ELSE IF reply = "ok" THEN Fulfilled(ObjectResult, op.acc, op.calls)
    ELSE Rejected("ApiError", op.acc, op.calls),
    ss)

\* The query is narrowed to the folder when one is configured; the files come
\* back as an array of {id, title} objects, one per spreadsheet.
listSpreadsheets(a, ctx, op, reply, ss) ==
  After(
    IF op.pc = "enter"
      THEN IF ctx = Undefined THEN NoContext
           ELSE Await("files.list",
                      <<IF ctx.folderId # "" THEN "in parents" ELSE "all">>, <<>>)
    ELSE IF reply = "ok" THEN Fulfilled(Value("objects", 1), op.acc, op.calls)
    ELSE Rejected("ApiError", op.acc, op.calls),
    ss)

Roles == {"reader", "commenter", "writer"}

\* The for loop of shareSpreadsheet from entry i on, up to the next grant it
\* awaits.  `context.drive` is read inside the try, so an undefined context is
\* one more caught failure.
RECURSIVE ShareFrom(_, _, _, _, _, _)
ShareFrom(a, ctx, i, successes, failures, calls) ==
  IF i > Len(a.recipients)
    THEN Fulfilled(Value("share", [successes |-> successes, failures |-> failures]),
                   [i |-> i, successes |-> successes, failures |-> failures], calls)
  ELSE LET rec == a.recipients[i] IN
    IF rec.email_address = "" \/ rec.role \notin Roles
      THEN ShareFrom(a, ctx, i + 1, successes,
                     Append(failures, [email_address |-> rec.email_address,
                                       error |-> "Invalid Entry"]), calls)
    ELSE IF ctx = Undefined
      THEN ShareFrom(a, ctx, i + 1, successes,
                     Append(failures, [email_address |-> rec.email_address,
                                       error |-> "TypeError"]), calls)
    ELSE Await("permissions.create",
               [i |-> i, successes |-> successes, failures |-> failures], calls)

\* A loop that a failed grant ends: the failure is recorded and the entries
\* after it are never looked at.
ShareStopsAtFailedGrant(a, ctx, op, reply, ss) ==
  After(
    IF op.pc = "enter" THEN ShareFrom(a, ctx, 1, <<>>, <<>>, <<>>)
    ELSE LET rec == a.recipients[op.acc.i] IN
      IF reply = "ok"
        THEN ShareFrom(a, ctx, op.acc.i + 1,
                       Append(op.acc.successes,
                              [email_address |-> rec.email_address, role |-> rec.role,
                               permissionId |-> "id"]),
                       op.acc.failures, op.calls)
        ELSE LET failures == Append(op.acc.failures,
                                    [email_address |-> rec.email_address,
                                     error |-> "ApiError"])
             IN Fulfilled(Value("share", [successes |-> op.acc.successes,
                                          failures |-> failures]),
                          [i |-> op.acc.i + 1, successes |-> op.acc.successes,
                           failures |-> failures], op.calls),
    ss)

shareSpreadsheet(a, ctx, op, reply, ss) ==
  After(
    IF op.pc = "enter" THEN ShareFrom(a, ctx, 1, <<>>, <<>>, <<>>)
    ELSE LET rec == a.recipients[op.acc.i] IN
      IF reply = "ok"
        THEN ShareFrom(a, ctx, op.acc.i + 1,
                       Append(op.acc.successes,
                              [email_address |-> rec.email_address, role |-> rec.role,
                               permissionId |-> "id"]),
                       op.acc.failures, op.calls)
        ELSE ShareFrom(a, ctx, op.acc.i + 1, op.acc.successes,
                       Append(op.acc.failures,
                              [email_address |-> rec.email_address, error |-> "ApiError"]),
                       op.calls),
    ss)

\* `range ? `${sheet}!${range}` : sheet`
FullRange(sheet, range) == IF range # "" THEN <<sheet, range>> ELSE <<sheet>>

\* The collaborator resolves an A1 range by the sheet title in front of it; the
\* ranges of the model all begin at cell A1 of that sheet.
RangeSheet(ss, fullRange) == Find(ss, fullRange[1])

sheetData(a, ctx, op, reply, ss) ==
  After(
    IF op.pc = "enter"
      THEN IF ctx = Undefined THEN NoContext
           ELSE Await("values.get", FullRange(a.sheet, a.range), <<>>)
    ELSE IF reply = "ok" /\ RangeSheet(ss, op.acc) # 0
      THEN Fulfilled(Value("strings",
                           IF ss[RangeSheet(ss, op.acc)].A1 = "" THEN <<>>
                           ELSE <<ss[RangeSheet(ss, op.acc)].A1>>),
                     op.acc, op.calls)
      ELSE Rejected("ApiError", op.acc, op.calls),
    ss)

updateCells(a, ctx, op, reply, ss) ==
  IF op.pc = "enter"
    THEN After(IF ctx = Undefined THEN NoContext
               ELSE Await("values.update", FullRange(a.sheet, a.range), <<>>), ss)
  ELSE IF reply = "ok" /\ RangeSheet(ss, op.acc) # 0
    THEN After(Fulfilled(ObjectResult, op.acc, op.calls),
               [ss EXCEPT ![RangeSheet(ss, op.acc)].A1 = a.data])
    ELSE After(Rejected("ApiError", op.acc, op.calls), ss)

\* Object.entries of the `ranges` array pairs each row with its index, so the
\* ranges sent are `${sheet}!0`, `${sheet}!1`, ...: none of them is cell A1.
batchUpdate(a, ctx, op, reply, ss) ==
  After(
    IF op.pc = "enter"
      THEN IF ctx = Undefined THEN NoContext
           ELSE Await("values.batchUpdate", <<<<a.sheet, "0">>>>, <<>>)
    ELSE IF reply = "ok" /\ Find(ss, a.sheet) # 0
      THEN Fulfilled(ObjectResult, op.acc, op.calls)
      ELSE Rejected("ApiError", op.acc, op.calls),
    ss)

\* An insertDimension request that asks for inheritance wherever it inserts.
InsertAlwaysInheriting(sheetId, dimension, start, count) ==
  [sheetId |-> sheetId, dimension |-> dimension,
   startIndex |-> start, endIndex |-> start + count,
   inheritFromBefore |-> TRUE]

\* The insertDimension request of addRows / addColumns.
InsertDimension(sheetId, dimension, start, count) ==
  [sheetId |-> sheetId, dimension |-> dimension,
   startIndex |-> start, endIndex |-> start + count,
   inheritFromBefore |-> (start # 0)]

\* Lines 142-158 and 160-175 differ in the dimension and the not-found string.
Insert(dimension, notFound, a, ctx, op, reply, ss) ==
  After(
    CASE op.pc = "enter" ->
           IF ctx = Undefined THEN NoContext
           ELSE Await("spreadsheets.get", <<>>, <<>>)
      [] op.pc = "spreadsheets.get" ->
           IF reply # "ok" THEN Rejected("ApiError", op.acc, op.calls)
           ELSE IF Find(ss, a.sheet) = 0
             THEN Fulfilled(Value("string", notFound), op.acc, op.calls)
             ELSE Await("spreadsheets.batchUpdate",
                        <<InsertDimension(ss[Find(ss, a.sheet)].sheetId, dimension,
                                          a.start, a.count)>>, op.calls)
      [] OTHER ->
           IF reply = "ok" /\ IndexOfId(ss, op.acc[1].sheetId) # 0
             THEN Fulfilled(ObjectResult, op.acc, op.calls)
             ELSE Rejected("ApiError", op.acc, op.calls),
    ss)

addRows(a, ctx, op, reply, ss) ==
  Insert("ROWS", "Sheet Not found", a, ctx, op, reply, ss)

addColumns(a, ctx, op, reply, ss) ==
  Insert("COLUMNS", "Sheet not found", a, ctx, op, reply, ss)

\* The title the collaborator gives a copy made inside the same spreadsheet.
CopyOf(title) ==
  CASE title = "Sheet1" -> "Copy of Sheet1"
    [] title = "sheet1" -> "Copy of sheet1"
    [] OTHER -> "Copy of Data"

CanCopy(ss, id) ==
  /\ IndexOfId(ss, id) # 0
  /\ Len(ss) < MaxSheets
  /\ CopyOf(ss[IndexOfId(ss, id)].title) \notin TitlesOf(ss)

copySheet(a, ctx, op, reply, ss) ==
  CASE op.pc = "enter" ->
         After(IF ctx = Undefined THEN NoContext
               ELSE Await("spreadsheets.get", <<>>, <<>>), ss)
    [] op.pc = "spreadsheets.get" ->
         After(IF reply # "ok" THEN Rejected("ApiError", op.acc, op.calls)
               ELSE IF Find(ss, a.sheet) = 0
                 THEN Fulfilled(Value("string", "Source sheet not found"), op.acc, op.calls)
                 ELSE Await("sheets.copyTo", <<ss[Find(ss, a.sheet)].sheetId>>, op.calls), ss)
    [] op.pc = "sheets.copyTo" ->
         IF reply = "ok" /\ CanCopy(ss, op.acc[1])
           THEN LET src == ss[IndexOfId(ss, op.acc[1])]
                    copy == Sheet(Len(ss), CopyOf(src.title), src.A1)
                IN After(IF a.dst # "" /\ copy.title # a.dst
                           THEN Await("spreadsheets.batchUpdate", <<copy.sheetId>>, op.calls)
                           ELSE Fulfilled(ObjectResult, <<copy.sheetId>>, op.calls),
                         Append(ss, copy))
           ELSE After(Rejected("ApiError", op.acc, op.calls), ss)
    [] OTHER ->
         IF reply = "ok" /\ CanRename(ss, op.acc[1], a.dst)
           THEN After(Fulfilled(ObjectResult, op.acc, op.calls),
                      Renamed(ss, op.acc[1], a.dst))
           ELSE After(Rejected("ApiError", op.acc, op.calls), ss)

\* ------------------------------------------------- the registered handlers
\* The envelope a handler has returned, or how else its call stands.
NoResponse == [status |-> "none", content |-> <<>>]
Threw == [status |-> "rejected", content |-> <<>>]
Text(template, value) == [template |-> template, value |-> value]
Returned(text) == [status |-> "returned", content |-> <<[type |-> "text", text |-> text]>>]

\* `${x}` in a template literal: a promise and a plain object print as their
\* tags, an array prints its elements joined by commas.
String(v) ==
  CASE v.kind = "promise" -> "[object Promise]"
    [] v.kind = "object" -> "[object Object]"
    [] v.kind = "objects" -> [i \in 1..v.value |-> "[object Object]"]
    [] OTHER -> v.value

Promise == Value("promise", "")

\* A handler that awaits the function: nothing until the promise settles, the
\* rejection passed on when it rejects, else the text.
Awaited(op, text) ==
  CASE op.status = "pending" -> NoResponse
    [] op.status = "rejected" -> Threw
    [] OTHER -> Returned(text)

tool_create(op) ==
  CASE op.status = "pending" -> NoResponse
    [] op.status = "rejected" ->
         Returned(Text("Failed to create spreadsheet: ${error}", String(op.result)))
    [] OTHER ->
         Returned(Text("Created spreadsheet successfully with id: ${id}. Visit at ${link}",
                       String(op.result)))

tool_listSheets(op) ==
  Awaited(op, Text("List of all the sheets present: ${res}", String(op.result)))

tool_renameSheet(op) ==
  Awaited(op,
    IF op.result.kind = "string"
       /\ op.result.value = "Cannot find the sheet with the specified name"
      THEN Text("Cannot find the sheet with the provided name", "")
      ELSE Text("Sheet renamed successfully!", ""))

tool_createSheet(op) ==
  Awaited(op, Text("Following sheet was created: ${res}", String(op.result)))

tool_spreadsheetInfo(op) ==
  Awaited(op, Text("Spreadsheet Info: ${res}", String(op.result)))

tool_listSpreadsheets(op) ==
  Awaited(op, Text("List of spreadsheets: ${res}", String(op.result)))

tool_shareSpreadsheet(op) ==
  Awaited(op,
    Text("Following are the successes: ${successes} and failures: ${failures}",
         IF op.status = "fulfilled"
           THEN <<String(Value("objects", Len(op.result.value.successes))),
                  String(Value("objects", Len(op.result.value.failures)))>>
           ELSE <<>>))

tool_sheetData(op) ==
  Awaited(op, Text("The data is: ${res}", String(op.result)))

\* The five handlers below do not await the function: `res` is its promise.
tool_updateCells(op) ==
  Returned(Text("Data was updated successfully.${res}", String(Promise)))

tool_batchUpdate(op) ==
  Returned(Text("The values were updated: ${res}", String(Promise)))

tool_addRows(op) == Returned(Text("The rows were added successfully!", ""))

tool_addColumns(op) == Returned(Text("The columns were added successfully!", ""))

tool_copySheet(op) ==
  Returned(Text("Sheet was successfully copied to destination sheet. ${res}",
                String(Promise)))

Handler(tool, op) ==
  CASE tool = "create" -> tool_create(op)
    [] tool = "listSheets" -> tool_listSheets(op)
    [] tool = "renameSheet" -> tool_renameSheet(op)
    [] tool = "createSheet" -> tool_createSheet(op)
    [] tool = "spreadsheetInfo" -> tool_spreadsheetInfo(op)
    [] tool = "listSpreadsheets" -> tool_listSpreadsheets(op)
    [] tool = "shareSpreadsheet" -> tool_shareSpreadsheet(op)
    [] tool = "sheetData" -> tool_sheetData(op)
    [] tool = "updateCells" -> tool_updateCells(op)
    [] tool = "batchUpdate" -> tool_batchUpdate(op)
    [] tool = "addRows" -> tool_addRows(op)
    [] tool = "addColumns" -> tool_addColumns(op)
    [] OTHER -> tool_copySheet(op)

Function(tool, a, ctx, op, reply, ss) ==
  CASE tool = "create" -> createSpreadSheet(a, ctx, op, reply, ss)
    [] tool = "listSheets" -> listSheets(a, ctx, op, reply, ss)
    [] tool = "renameSheet" -> renameSheet(a, ctx, op, reply, ss)
    [] tool = "createSheet" -> createSheet(a, ctx, op, reply, ss)
    [] tool = "spreadsheetInfo" -> spreadsheetInfo(a, ctx, op, reply, ss)
    [] tool = "listSpreadsheets" -> listSpreadsheets(a, ctx, op, reply, ss)
    [] tool = "shareSpreadsheet" -> shareSpreadsheet(a, ctx, op, reply, ss)
    [] tool = "sheetData" -> sheetData(a, ctx, op, reply, ss)
    [] tool = "updateCells" -> updateCells(a, ctx, op, reply, ss)
    [] tool = "batchUpdate" -> batchUpdate(a, ctx, op, reply, ss)
    [] tool = "addRows" -> addRows(a, ctx, op, reply, ss)
    [] tool = "addColumns" -> addColumns(a, ctx, op, reply, ss)
    [] OTHER -> copySheet(a, ctx, op, reply, ss)

\* ---------------------------------------------------------- the transport
\* The transport is connected before initContext runs and reads requests from
\* then on, until the process exits.
Serving == pc \notin {"start", "exited"}

Entering == Op("enter", "pending", NoValue, <<>>, <<>>)

\* A call leaves `requests` when the client sends its next request after the
\* call's function has settled: it can do nothing more.
RECURSIVE InProgress(_)
InProgress(rs) ==
  IF rs = <<>> THEN <<>>
  ELSE IF Head(rs).op.status = "pending" THEN <<Head(rs)>> \o InProgress(Tail(rs))
  ELSE InProgress(Tail(rs))

\* What the client expects a read to return: the data of the updateCells it
\* sent just before, for the same sheet and range, and was told had succeeded.
Expected(tool, a) ==
  IF /\ tool = "sheetData"
     /\ requests # <<>>
     /\ requests[Len(requests)].tool = "updateCells"
     /\ requests[Len(requests)].response.status = "returned"
     /\ requests[Len(requests)].op.status # "rejected"
     /\ requests[Len(requests)].args.sheet = a.sheet
     /\ requests[Len(requests)].args.range = a.range
    THEN <<requests[Len(requests)].args.data>>
    ELSE <<>>

\* The client sends a request once it has the answer to its previous one; the
\* handler runs at once, with the value `context` holds at that moment, up to
\* the first await.  Requests are numbered in the order they are sent.
Request(tool, a) ==
  /\ Serving
  /\ toSend > 0
  /\ toSend' = toSend - 1
  /\ \A i \in 1..Len(requests) : requests[i].response.status # "none"
  /\ LET op == Function(tool, a, context, Entering, "ok", spreadsheet).op
     IN requests' = Append(InProgress(requests),
                           [id |-> MaxRequests - toSend, tool |-> tool, args |-> a,
                            expect |-> Expected(tool, a), ctx |-> context, op |-> op,
                            response |-> Handler(tool, op)])
  /\ UNCHANGED <<env, tokenFile, pc, context, log, spreadsheet>>

\* The recipients of the specification's example: two valid entries, one with
\* an empty address, one with a role that is not a role.
Recipients ==
  {[email_address |-> "a@example.com", role |-> "writer"],
   [email_address |-> "c@example.com", role |-> "reader"],
   [email_address |-> "", role |-> "reader"],
   [email_address |-> "b@example.com", role |-> "bogusrole"]}

\* The lists of up to MaxRecipients of them, each named once.
RecipientLists ==
  UNION {{rs \in [1..n -> Recipients] : \A j, k \in 1..n : rs[j] = rs[k] => j = k}
           : n \in 0..MaxRecipients}

Request_create == Request("create", NoArgs)
Request_listSheets == Request("listSheets", NoArgs)
Request_renameSheet ==
  \E t \in RequestTitles, n \in {"sheet1"} :
    Request("renameSheet", [NoArgs EXCEPT !.sheet = t, !.newName = n])
Request_createSheet ==
  \E t \in {"sheet1"} : Request("createSheet", [NoArgs EXCEPT !.sheet = t])
Request_spreadsheetInfo == Request("spreadsheetInfo", NoArgs)
Request_listSpreadsheets == Request("listSpreadsheets", NoArgs)
Request_shareSpreadsheet ==
  \E rs \in RecipientLists :
    Request("shareSpreadsheet", [NoArgs EXCEPT !.recipients = rs])
Request_sheetData ==
  \E t \in RequestTitles, rg \in Ranges :
    Request("sheetData", [NoArgs EXCEPT !.sheet = t, !.range = rg])
Request_updateCells ==
  \E t \in RequestTitles, rg \in Ranges, d \in CellData :
    Request("updateCells", [NoArgs EXCEPT !.sheet = t, !.range = rg, !.data = d])
Request_batchUpdate ==
  \E t \in RequestTitles : Request("batchUpdate", [NoArgs EXCEPT !.sheet = t])
Request_addRows ==
  \E t \in RequestTitles, st \in {0, 5} :
    Request("addRows", [NoArgs EXCEPT !.sheet = t, !.count = 3, !.start = st])
Request_addColumns ==
  \E t \in RequestTitles, st \in {0, 5} :
    Request("addColumns", [NoArgs EXCEPT !.sheet = t, !.count = 3, !.start = st])
Request_copySheet ==
  \E t \in RequestTitles, d \in {"", "Copy of Sheet1", "Archive"} :
    Request("copySheet", [NoArgs EXCEPT !.sheet = t, !.dst = d])

Replies(call) ==
  IF call = "spreadsheets.create" THEN {"ok", "noId", "error"} ELSE {"ok", "error"}

\* The collaborator answers one of the calls in flight; the function that
\* awaits it runs on to its next await or to its end, and a handler that
\* awaits the function returns, or rejects, when the function has settled.
CollaboratorReply ==
  /\ pc # "exited"
  /\ \E i \in 1..Len(requests) :
       /\ requests[i].op.status = "pending"
       /\ \E reply \in Replies(requests[i].op.pc) :
            LET r == requests[i]
                s == Function(r.tool, r.args, r.ctx, r.op, reply, spreadsheet)
            IN /\ requests' = [requests EXCEPT ![i].op = s.op,
                                               ![i].response = Handler(r.tool, s.op)]
               /\ spreadsheet' = s.spreadsheet
  /\ UNCHANGED <<env, tokenFile, pc, context, log, toSend>>

Resume(b) ==
  /\ pc' = b.pc
  /\ context' = b.context
  /\ log' = b.log
  /\ tokenFile' = b.tokenFile
  /\ UNCHANGED <<env, toSend, requests, spreadsheet>>

\* startServer: connect the transport, then run initContext to its first await.
StartServer ==
  /\ pc = "start"
  /\ \E connected \in BOOLEAN :
       IF connected THEN Resume(InitContextEntry)
       ELSE Resume(Boot("exited", context, <<"connectFailed">>, tokenFile))

AuthorizeDone ==
  /\ pc = "authorize"
  /\ \E ok \in BOOLEAN : Resume(AfterAuthorize(ok))

ProbeDone ==
  /\ pc = "probe"
  /\ \E ok \in BOOLEAN : Resume(AfterProbe(ok))

\* The operator types the code; rl.question's callback resolves the promise
\* and initContext calls getToken(code).
CodeEntered ==
  /\ pc = "prompt"
  /\ Resume(Boot("getToken", context, Append(log, "exchange"), tokenFile))

GetTokenDone ==
  /\ pc = "getToken"
  /\ \E outcome \in {"tokens", "rejected", "writeFailed"} :
       Resume(AfterGetToken(outcome))

\* The process as it starts, with a client that will send n requests.
Start(n) ==
  /\ toSend = n
  /\ CREDENTIALS_CONFIG \in {"", "malformed", "key"}
  /\ credentialsFile \in {"absent", "invalid", "ok"}
  /\ tokenFile \in {"absent", "corrupt", "saved"}
  /\ DRIVE_FOLDER_ID \in {"", "folder"}
  /\ pc = "start"
  /\ context = Undefined
  /\ log = <<>>
  /\ requests = <<>>
  /\ spreadsheet = InitialSpreadsheet

Init == Start(MaxRequests)

StartupInit == Start(MaxStartupRequests)

Next ==
  \/ StartServer
  \/ AuthorizeDone
  \/ ProbeDone
  \/ CodeEntered
  \/ GetTokenDone
  \/ Request_create
  \/ Request_listSheets
  \/ Request_renameSheet
  \/ Request_createSheet
  \/ Request_spreadsheetInfo
  \/ Request_listSpreadsheets
  \/ Request_shareSpreadsheet
  \/ Request_sheetData
  \/ Request_updateCells
  \/ Request_batchUpdate
  \/ Request_addRows
  \/ Request_addColumns
  \/ Request_copySheet
  \/ CollaboratorReply

Spec == Init /\ [][Next]_vars

\* The same program with a client that sends fewer requests, for the
\* properties of the startup sequence.
StartupSpec == StartupInit /\ [][Next]_vars

\* ================================================================ claims
Has(l, e) == \E k \in 1..Len(l) : l[k] = e

\* Whether a handler returns while the function it called is still running:
\* it does not await the function's promise.
Floating(tool) == Handler(tool, Entering).status = "returned"

TextOf(r) == r.response.content[1].text

\* C1: the Session Context is created before any tool request is served: no
\* handler starts running while `context` is still unassigned.
C1_ContextBeforeAnyRequest ==
  \A i \in 1..Len(requests) : requests[i].ctx # Undefined

\* C2: dispatch returns exactly one envelope with a non-empty content
\* sequence and never raises: when a collaborator call of a handler fails,
\* the handler returns a text envelope describing the failure, it does not
\* reject.  Stated of the requests served with the context built.
C2_HandlerNeverRejects ==
  \A i \in 1..Len(requests) :
    LET r == requests[i] IN
      r.ctx # Undefined =>
      /\ r.response.status # "rejected"
      /\ r.response.status = "returned" => Len(r.response.content) >= 1
      /\ (r.op.status = "rejected" /\ r.op.result.value = "ApiError")
           => r.response.status = "returned"

\* C3: once the context is built, every collaborator error raised during a
\* tool call reaches the dispatch boundary: none is left on a promise that
\* nothing awaits, behind a response that was already sent.
C3_NoFailureUnabsorbed ==
  \A i \in 1..Len(requests) :
    LET r == requests[i] IN
      (r.ctx # Undefined /\ r.op.status = "rejected") => ~Floating(r.tool)

\* C4: a request is answered only after every collaborator call its handler
\* started has completed, so none is pending when the next request starts.
C4_ResponseAfterCompletion ==
  \A i \in 1..Len(requests) :
    requests[i].response.status # "none" => requests[i].op.status # "pending"

\* C5: a sheetData sent right after the response to an updateCells of the
\* same sheet and range returns the values of that write, when the write was
\* accepted by the collaborator.
C5_ReadYourWrite ==
  \A i \in 1..Len(requests) :
    LET r == requests[i] IN
      ( /\ r.tool = "sheetData"
        /\ r.expect # <<>>
        /\ r.response.status = "returned"
        /\ \A j \in 1..Len(requests) :
             requests[j].id = r.id - 1 => requests[j].op.status = "fulfilled" )
      => TextOf(r).value = r.expect

SuccessText(tool) ==
  CASE tool = "renameSheet" -> "Sheet renamed successfully!"
    [] tool = "addRows" -> "The rows were added successfully!"
    [] tool = "addColumns" -> "The columns were added successfully!"
    [] OTHER -> "Sheet was successfully copied to destination sheet. ${res}"

\* C6: for renameSheet, addRows, addColumns and copySheet, when no sheet has
\* exactly the requested title the caller is told so: the response is not the
\* tool's success message.
C6_NotFoundIsReported ==
  \A i \in 1..Len(requests) :
    LET r == requests[i] IN
      ( /\ r.tool \in {"renameSheet", "addRows", "addColumns", "copySheet"}
        /\ r.op.status = "fulfilled"
        /\ r.op.result.kind = "string" )
      => /\ r.response.status = "returned"
         /\ TextOf(r).template # SuccessText(r.tool)

\* C7: with a service credential configured, initContext tries the service
\* path first; the OAuth path is entered only after the service path has
\* failed, and never once the service handshake has succeeded.
C7_ServicePathFirst ==
  /\ (CREDENTIALS_CONFIG # "" /\ log # <<>> /\ log[1] # "connectFailed")
       => log[1] = "service"
  /\ \A k \in 1..Len(log) :
       (log[k] = "oauth" /\ CREDENTIALS_CONFIG # "")
         => \E j \in 1..(k - 1) : log[j] = "serviceFailed"
  /\ Has(log, "serviceOk") => ~Has(log, "oauth")

\* Both credentials are present, the handshake was refused, the OAuth path ran.
C7_Witness ==
  /\ CREDENTIALS_CONFIG = "key"
  /\ credentialsFile = "ok"
  /\ Has(log, "serviceFailed")
  /\ Has(log, "oauth")

Yielded == Has(log, "serviceOk") \/ Has(log, "probeOk") \/ Has(log, "write")

\* C8: initContext either returns with `context` assigned or exits the
\* process, and it exits exactly when neither path yielded a context; a
\* failure of the service path alone does not exit: the OAuth path is tried
\* whenever credentials.json is there.
C8_ReturnsOrExits ==
  /\ pc = "ready" => (context # Undefined /\ Yielded)
  /\ (pc = "exited" /\ log[1] # "connectFailed")
       => /\ context = Undefined
          /\ ~Yielded
          /\ Has(log, "noMethod") \/ Has(log, "oauthError")
          /\ Has(log, "noMethod") <=> credentialsFile = "absent"
  /\ Yielded => pc = "ready"

\* The service path failed and the OAuth path still produced the context.
C8_Witness ==
  /\ pc = "ready"
  /\ Has(log, "serviceFailed")
  /\ context.auth \in {"savedToken", "newToken"}

C10_ContextImmutable ==
  [][(context # Undefined \/ requests' # requests) => context' = context]_vars

\* A handler has run to its end with the context that initContext built.
C10_Witness ==
  /\ context # Undefined
  /\ \E i \in 1..Len(requests) :
       /\ requests[i].ctx = context
       /\ requests[i].op.status = "fulfilled"
       /\ requests[i].response.status = "returned"

ValidEntry(rec) ==
  rec.email_address # "" /\ rec.role \in {"reader", "commenter", "writer"}

\* The entries of recs whose outcome is o, in the order of recs.
RECURSIVE Pick(_, _, _)
Pick(recs, outcome, o) ==
  IF recs = <<>> THEN <<>>
  ELSE (IF Head(outcome) = o THEN <<Head(recs)>> ELSE <<>>)
         \o Pick(Tail(recs), Tail(outcome), o)

\* C11: shareSpreadsheet processes every recipient independently.  Each entry
\* it has gone past has produced exactly one outcome, a success or a failure,
\* and each list keeps the input order; when it returns it has gone past them
\* all, so successes plus failures is the number of recipients.  An entry with
\* an empty address or a role outside {reader, commenter, writer} is a failure
\* for which no grant call was made: the grant calls are as many as the valid
\* entries.  A failed grant is one more failure and the call never rejects.
C11_EveryRecipientOneOutcome ==
  \A j \in 1..Len(requests) :
    LET r == requests[j] IN
      r.tool = "shareSpreadsheet" =>
        LET recs == r.args.recipients
            n == r.op.acc.i - 1
            past == SubSeq(recs, 1, n)
            successes == r.op.acc.successes
            failures == r.op.acc.failures
            waiting == IF r.op.status = "pending" THEN 1 ELSE 0
        IN /\ r.op.status # "rejected"
           /\ n \in 0..Len(recs)
           /\ Len(successes) + Len(failures) = n
           /\ \E outcome \in [1..n -> {"success", "failure"}] :
                /\ \A k \in 1..n : ~ValidEntry(recs[k]) => outcome[k] = "failure"
                /\ [k \in 1..Len(successes) |->
                      [email_address |-> successes[k].email_address,
                       role |-> successes[k].role]]
                     = Pick(past, outcome, "success")
                /\ [k \in 1..Len(failures) |-> failures[k].email_address]
                     = [k \in 1..Len(Pick(past, outcome, "failure")) |->
                          Pick(past, outcome, "failure")[k].email_address]
           /\ Cardinality({k \in 1..Len(failures) : failures[k].error = "Invalid Entry"})
                = Cardinality({k \in 1..n : ~ValidEntry(recs[k])})
           /\ \A k \in 1..Len(r.op.calls) : r.op.calls[k] = "permissions.create"
           /\ Len(r.op.calls)
                = IF r.ctx = Undefined THEN 0
                  ELSE Cardinality({k \in 1..n : ValidEntry(recs[k])}) + waiting
           /\ r.op.status = "pending" => ValidEntry(recs[n + 1])
           /\ r.op.status = "fulfilled"
                => /\ n = Len(recs)
                   /\ r.op.result = Value("share", [successes |-> successes,
                                                    failures |-> failures])

\* The grant for the first of two valid entries failed, the second entry was
\* still granted, and the call returned both outcomes.
C11_Witness ==
  \E j \in 1..Len(requests) :
    LET r == requests[j] IN
      /\ r.tool = "shareSpreadsheet"
      /\ r.op.status = "fulfilled"
      /\ Len(r.args.recipients) = 2
      /\ ValidEntry(r.args.recipients[1])
      /\ Len(r.op.result.value.failures) = 1
      /\ r.op.result.value.failures[1].email_address = r.args.recipients[1].email_address
      /\ r.op.result.value.failures[1].error # "Invalid Entry"
      /\ Len(r.op.result.value.successes) = 1
      /\ Len(r.op.calls) = 2

\* The collaborator calls of a whole createSpreadSheet, in the order it makes
\* them: the creation, the grant, and the two calls of the folder move.
CreateCalls ==
  <<"spreadsheets.create", "permissions.create", "files.get", "files.update">>

\* C12: the side effects of create are best effort.  Once the creation call
\* has answered with an id (the grant has been issued), createSpreadSheet
\* never fails and returns the new id and link, whatever the grant and the
\* folder move answered; the folder move is attempted after the grant
\* whatever the grant answered, and only when the context has a folder id;
\* createSpreadSheet fails only at the creation call: the call failed,
\* answered without an id, or could not be made for want of a context.
C12_BestEffortSideEffects ==
  \A j \in 1..Len(requests) :
    LET r == requests[j] IN
      r.tool = "create" =>
        LET calls == r.op.calls
            replies == r.op.acc
            created == Len(calls) >= 2
        IN /\ Len(calls) <= Len(CreateCalls)
           /\ calls = SubSeq(CreateCalls, 1, Len(calls))
           /\ created => r.op.status # "rejected"
           /\ r.op.status = "fulfilled"
                => /\ created
                   /\ r.op.result = Value("created", "id")
                   /\ Len(replies) = Len(calls) - 1
           /\ (replies # <<>> /\ r.ctx.folderId # "") => Len(calls) >= 3
           /\ Len(calls) >= 3 => r.ctx.folderId # ""
           /\ Len(calls) = 4 => replies[2] = "ok"
           /\ r.op.status = "rejected"
                => \/ r.ctx = Undefined /\ calls = <<>>
                   \/ calls = <<"spreadsheets.create">>

\* The grant failed, the move to the configured folder was still attempted and
\* failed too, and createSpreadSheet returned the id and link.
C12_Witness ==
  \E j \in 1..Len(requests) :
    LET r == requests[j] IN
      /\ r.tool = "create"
      /\ r.ctx.folderId # ""
      /\ r.op.status = "fulfilled"
      /\ r.op.result = Value("created", "id")
      /\ r.op.acc = <<"error", "ok", "error">>
      /\ r.op.calls = CreateCalls

\* C13: addRows and addColumns, when the sheet title resolves, issue exactly
\* one insertDimension request, for the numeric id of the sheet the title
\* resolved to, over the indices [start, start + count) of the rows
\* (addRows) or columns (addColumns), asking for the formatting of the
\* preceding row or column exactly when start is not 0: start = 0, count = 3
\* is [0, 3) without inheritance, start = 5, count = 3 is [5, 8) with it.
C13_OneInsertDimension ==
  [][\A k \in 1..Len(requests') :
       LET r == requests'[k] IN
         r.tool \in {"addRows", "addColumns"} =>
           /\ Len(r.op.calls) <= 2
           /\ r.op.calls = SubSeq(<<"spreadsheets.get", "spreadsheets.batchUpdate">>,
                                  1, Len(r.op.calls))
           /\ Len(r.op.calls) = 2
                => /\ Len(r.op.acc) = 1
                   /\ r.op.acc[1].dimension
                        = (IF r.tool = "addRows" THEN "ROWS" ELSE "COLUMNS")
                   /\ r.op.acc[1].startIndex = r.args.start
                   /\ r.op.acc[1].endIndex = r.args.start + r.args.count
                   /\ r.op.acc[1].inheritFromBefore = (r.args.start # 0)
                   /\ r.args.start = 0
                        => (r.op.acc[1].startIndex = 0 /\ r.op.acc[1].endIndex = r.args.count)
           /\ \A j \in 1..Len(requests) :
                (requests[j].id = r.id /\ requests[j].op.pc = "spreadsheets.get"
                   /\ r.op.pc # "spreadsheets.get")
                  => LET found == Find(spreadsheet, r.args.sheet) IN
                       /\ r.op.pc = "spreadsheets.batchUpdate"
                            => /\ found # 0
                               /\ r.op.acc[1].sheetId = spreadsheet[found].sheetId
                       /\ (found # 0 /\ r.op.status # "rejected")
                            => r.op.pc = "spreadsheets.batchUpdate"
    ]_vars

\* addRows with start 5 and count 3 for the title Sheet1 has inserted the rows
\* [5, 8) of sheet 0 with inheritance.
C13_Witness ==
  \E j \in 1..Len(requests) :
    LET r == requests[j] IN
      /\ r.tool = "addRows"
      /\ r.args.sheet = "Sheet1"
      /\ r.args.start = 5
      /\ r.op.status = "fulfilled"
      /\ r.op.calls = <<"spreadsheets.get", "spreadsheets.batchUpdate">>
      /\ r.op.acc = <<[sheetId |-> 0, dimension |-> "ROWS", startIndex |-> 5,
                       endIndex |-> 8, inheritFromBefore |-> TRUE]>>

LookupTools == {"renameSheet", "addRows", "addColumns", "copySheet"}

\* The collaborator calls a function may make, in the order it makes them.
CallsOf(tool) ==
  IF tool = "copySheet"
    THEN <<"spreadsheets.get", "sheets.copyTo", "spreadsheets.batchUpdate">>
    ELSE <<"spreadsheets.get", "spreadsheets.batchUpdate">>

\* C14: a failed sheet lookup leaves the spreadsheets unchanged.  When the
\* metadata read of renameSheet, addRows, addColumns or copySheet shows no
\* sheet whose title equals the requested title exactly, the function ends
\* there: the read is the only collaborator call it has made (no batchUpdate,
\* no copyTo) and the spreadsheet is as it was.  copySheet issues its
\* follow-up rename only after the copy was made, and only for a destination
\* title that is given and is not already the title of the copy.
C14_FailedLookupChangesNothing ==
  [][\A k \in 1..Len(requests') :
       LET r == requests'[k] IN
         r.tool \in LookupTools =>
           /\ Len(r.op.calls) <= Len(CallsOf(r.tool))
           /\ r.op.calls = SubSeq(CallsOf(r.tool), 1, Len(r.op.calls))
           /\ (r.op.status = "fulfilled" /\ r.op.result.kind = "string")
                => r.op.calls = <<"spreadsheets.get">>
           /\ \A j \in 1..Len(requests) :
                (requests[j].id = r.id /\ requests[j].op.pc # r.op.pc) =>
                  /\ ( /\ requests[j].op.pc = "spreadsheets.get"
                       /\ \A i \in 1..Len(spreadsheet) :
                            spreadsheet[i].title # r.args.sheet )
                       => /\ r.op.status # "pending"
                          /\ r.op.calls = <<"spreadsheets.get">>
                          /\ spreadsheet' = spreadsheet
                  /\ ( /\ r.tool = "copySheet"
                       /\ requests[j].op.pc = "sheets.copyTo" )
                       => LET copied == /\ Len(spreadsheet') = Len(spreadsheet) + 1
                                        /\ SubSeq(spreadsheet', 1, Len(spreadsheet))
                                             = spreadsheet
                              copy == spreadsheet'[Len(spreadsheet')]
                          IN /\ r.op.status = "rejected" <=> ~copied
                             /\ ~copied => spreadsheet' = spreadsheet
                             /\ r.op.pc = "spreadsheets.batchUpdate"
                                  <=> /\ copied
                                      /\ r.args.dst # ""
                                      /\ copy.title # r.args.dst
                             /\ r.op.pc = "spreadsheets.batchUpdate"
                                  => r.op.acc = <<copy.sheetId>>
    ]_vars

\* copySheet was asked for the sheet "sheet1" of a spreadsheet whose sheets are
\* Sheet1 and Data: it answered "Source sheet not found" after the read alone.
C14_Witness ==
  \E j \in 1..Len(requests) :
    LET r == requests[j] IN
      /\ r.tool = "copySheet"
      /\ r.args.sheet = "sheet1"
      /\ r.op.status = "fulfilled"
      /\ r.op.result = Value("string", "Source sheet not found")
      /\ r.op.calls = <<"spreadsheets.get">>
      /\ spreadsheet = InitialSpreadsheet

====
